---- MODULE Spec2Model ----
(***************************************************************************)
(* Model of the two scripts of the repository:                             *)
(*   kkw_param.py    - brute-force search of KKW parameters (M, tau)       *)
(*   parse_result.py - benchmark log parser                                *)
(*                                                                         *)
(* Python integers are unbounded.  They are modelled as sequences of       *)
(* base-Base digits, least significant first, without leading zeros        *)
(* (zero is the empty sequence).  A Python float is modelled as the exact  *)
(* rational [num, den] it approximates; rounding to 53 bits and gradual    *)
(* underflow are not modelled, overflow of the float range is.             *)
(***************************************************************************)
EXTENDS Integers, Sequences, FiniteSets, TLC

VARIABLES
    pc,           \* position of kkw_param.py's module-level code
    n,            \* number of parties simulated (kkw_param.py:12)
    target,       \* statistical security target (kkw_param.py:15)
    Mrange,       \* the range of the outer loop (kkw_param.py:42)
    taurange,     \* the range of the inner loop (kkw_param.py:44)
    M, tau,       \* the loop variables
    rho,          \* err's loop variable
    base,         \* err's running maximum
    ret,          \* the value err_sg returned last
    err_ret,      \* what the last call of err returned
    lst,          \* the candidate list
    min_tuples,   \* the best-result holder
    idx,          \* position of "for tp in lst"
    hits,         \* assignments to min_tuples in the current iteration
    out,          \* what was printed
    calls,        \* number of calls of err so far
    scanned,      \* number of rho values the current call of err has scanned
    ncr_in,       \* arguments of a direct call of ncr
    ncr_out,      \* its result
    lines,        \* parse_result.py: the lines of the log
    ppc,          \* parse_result.py: position of the script
    i,            \* parse_result.py: the index of enumerate(lines)
    circuit_name, \* parse_result.py: the name seen last
    parsed_data,  \* parse_result.py: name -> fields, in insertion order
    csv           \* parse_result.py: the rows written

kkwVars   == <<pc, n, target, Mrange, taurange, M, tau, rho, base, ret, err_ret,
               lst, min_tuples, idx, hits, out, calls, scanned>>
ncrVars   == <<ncr_in, ncr_out>>
parseVars == <<lines, ppc, i, circuit_name, parsed_data, csv>>
vars      == <<kkwVars, ncrVars, parseVars>>

\* ------------------------------------------------------------------------
\* Unbounded integers.  Loops over digits and over factors are written by
\* bisection of the index range: the steps are taken in the same order as a
\* left-to-right loop, the evaluator's recursion depth stays logarithmic.
\* ------------------------------------------------------------------------
Base == 100 * 100

Max(S) == CHOOSE p \in S : \A q \in S : q <= p

Min(a, b) == IF a <= b THEN a ELSE b

\* the digits of a machine-size k >= 0
RECURSIVE Big(_)
Big(k) == IF k = 0 THEN <<>> ELSE <<k % Base>> \o Big(k \div Base)

\* x without leading zero digits
BigStrip(x) ==
    LET nz == {d \in 1..Len(x) : x[d] # 0}
    IN  IF nz = {} THEN <<>> ELSE SubSeq(x, 1, Max(nz))

\* digits lo..hi of x * m + carry, and the carry out
RECURSIVE MulSRange(_, _, _, _, _)
MulSRange(x, m, lo, hi, carry) ==
    IF lo = hi
    THEN LET t == x[lo] * m + carry IN <<<<t % Base>>, t \div Base>>
    ELSE LET mid == (lo + hi) \div 2
             L   == MulSRange(x, m, lo, mid, carry)
             R   == MulSRange(x, m, mid + 1, hi, L[2])
         IN  <<L[1] \o R[1], R[2]>>

\* x * m for a machine-size m, 0 <= m < Base
BigMulS(x, m) ==
    IF m = 0 \/ x = <<>> THEN <<>>
    ELSE LET r == MulSRange(x, m, 1, Len(x), 0) IN r[1] \o Big(r[2])

Reverse(s) == [d \in 1..Len(s) |-> s[Len(s) + 1 - d]]

\* digits hi..lo (most significant first) of x // m, taken from digit hi
\* down with remainder rem, and the remainder out
RECURSIVE DivSRange(_, _, _, _, _)
DivSRange(x, m, lo, hi, rem) ==
    IF lo = hi
    THEN LET t == rem * Base + x[lo] IN <<<<t \div m>>, t % m>>
    ELSE LET mid == (lo + hi) \div 2
             H   == DivSRange(x, m, mid + 1, hi, rem)
             L   == DivSRange(x, m, lo, mid, H[2])
         IN  <<H[1] \o L[1], L[2]>>

\* x // m (floor) for a machine-size m, 1 <= m < Base
BigDivS(x, m) ==
    IF x = <<>> THEN <<>>
    ELSE BigStrip(Reverse(DivSRange(x, m, 1, Len(x), 0)[1]))

\* -1, 0, 1 as x <, =, > y
BigCmp(x, y) ==
    IF Len(x) < Len(y) THEN -1
    ELSE IF Len(x) > Len(y) THEN 1
    ELSE LET D == {d \in 1..Len(x) : x[d] # y[d]}
         IN  IF D = {} THEN 0
             ELSE IF x[Max(D)] < y[Max(D)] THEN -1 ELSE 1

Digit(x, d) == IF d <= Len(x) THEN x[d] ELSE 0

\* digits lo..hi of x + y + carry, and the carry out
RECURSIVE AddRange(_, _, _, _, _)
AddRange(x, y, lo, hi, carry) ==
    IF lo = hi
    THEN LET t == Digit(x, lo) + Digit(y, lo) + carry
         IN  <<<<t % Base>>, t \div Base>>
    ELSE LET mid == (lo + hi) \div 2
             L   == AddRange(x, y, lo, mid, carry)
             R   == AddRange(x, y, mid + 1, hi, L[2])
         IN  <<L[1] \o R[1], R[2]>>

BigAdd(x, y) ==
    IF x = <<>> THEN y
    ELSE IF y = <<>> THEN x
    ELSE LET len == IF Len(x) >= Len(y) THEN Len(x) ELSE Len(y)
             r   == AddRange(x, y, 1, len, 0)
         IN  r[1] \o Big(r[2])

\* x * Base^k
BigShift(x, k) == IF x = <<>> THEN <<>> ELSE [d \in 1..k |-> 0] \o x

\* x * (digits lo..hi of y)
RECURSIVE MulRange(_, _, _, _)
MulRange(x, y, lo, hi) ==
    IF lo = hi
    THEN BigMulS(x, y[lo])
    ELSE LET mid == (lo + hi) \div 2
         IN  BigAdd(MulRange(x, y, lo, mid),
                    BigShift(MulRange(x, y, mid + 1, hi), mid - lo + 1))

\* x * y
BigMul(x, y) ==
    IF x = <<>> \/ y = <<>> THEN <<>> ELSE MulRange(x, y, 1, Len(y))

\* ------------------------------------------------------------------------
\* kkw_param.py
\* ------------------------------------------------------------------------

\* reduce(op.mul, range(start, start - cnt, -1), acc) restricted to the
\* factors number lo..hi (factor number j is start - j + 1)
RECURSIVE ProdDown(_, _, _, _)
ProdDown(start, lo, hi, acc) ==
    IF acc = <<>> \/ lo > hi THEN acc
    ELSE IF lo = hi THEN BigMulS(acc, start - lo + 1)
    ELSE LET mid == (lo + hi) \div 2
         IN  ProdDown(start, mid + 1, hi, ProdDown(start, lo, mid, acc))

\* reduce(op.mul, range(lo, hi + 1), acc)
RECURSIVE ProdUp(_, _, _)
ProdUp(lo, hi, acc) ==
    IF acc = <<>> \/ lo > hi THEN acc
    ELSE IF lo = hi THEN BigMulS(acc, lo)
    ELSE LET mid == (lo + hi) \div 2
         IN  ProdUp(mid + 1, hi, ProdUp(lo, mid, acc))

\* x // reduce(op.mul, range(lo, hi + 1), 1).  For positive integers
\* (x // p) // q = x // (p * q): the floor division by the product is taken
\* one factor at a time.
RECURSIVE FloorDivProdUp(_, _, _)
FloorDivProdUp(x, lo, hi) ==
    IF x = <<>> \/ lo > hi THEN x
    ELSE IF lo = hi THEN BigDivS(x, lo)
    ELSE LET mid == (lo + hi) \div 2
         IN  FloorDivProdUp(FloorDivProdUp(x, lo, mid), mid + 1, hi)

\* ncr with range(1, r) for the denominator: the last factor is missing
ncrShortDenom(n_, r_) ==
    LET r1    == Min(r_, n_ - r_)
        numer == ProdDown(n_, 1, r1, Big(1))
    IN  FloorDivProdUp(numer, 1, r1 - 1)

\* compute n \choose r
ncrCalc(n_, r_) ==
    LET r1    == Min(r_, n_ - r_)
        numer == ProdDown(n_, 1, r1, Big(1))
    IN  FloorDivProdUp(numer, 1, r1)

\* range(start, stop, step) with step > 0
Range(start, stop, step) == [start |-> start, stop |-> stop, step |-> step]

RangeEmpty(r) == r.start >= r.stop

\* the values range(start, stop, step) yields
RangeSet(r) ==
    IF RangeEmpty(r) THEN {}
    ELSE {r.start + r.step * k : k \in 0..((r.stop - r.start - 1) \div r.step)}

\* for M in range(64, 512, 8)
ProdMrange == Range(64, 512, 8)

\* for tau in range(8, 50, 8)
Prodtaurange == Range(8, 50, 8)

\* The normalising binomials ncr(M, M - tau) of the shipped search grid,
\* evaluated once: err_sg asks for the same one at every rho.
NcrMemo ==
    [p \in {<<m, m - t>> : m \in RangeSet(ProdMrange), t \in RangeSet(Prodtaurange)}
       |-> ncrCalc(p[1], p[2])]

ncr(n_, r_) ==
    IF <<n_, r_>> \in DOMAIN NcrMemo THEN NcrMemo[<<n_, r_>>] ELSE ncrCalc(n_, r_)

\* ------------------------------------------------------------------------
\* Floats, as exact rationals num/den with den > 0
\* ------------------------------------------------------------------------
Rat(num, den) == [num |-> num, den |-> den]

Zero == Rat(<<>>, Big(1))

One == Rat(Big(1), Big(1))

RatCmp(x, y) == BigCmp(BigMul(x.num, y.den), BigMul(y.num, x.den))

RatLt(x, y) == RatCmp(x, y) < 0

RatEq(x, y) == RatCmp(x, y) = 0

\* n ** k for k >= 0, by repeated squaring
RECURSIVE BigPow(_, _)
BigPow(x, k) ==
    IF k = 0 THEN Big(1)
    ELSE LET h == BigPow(x, k \div 2)
             q == BigMul(h, h)
         IN  IF k % 2 = 0 THEN q ELSE BigMul(q, x)

\* The smallest integer that does not round to a finite double:
\* 2^1024 - 2^970 = (2^54 - 1) * 2^970.
FloatLimit == BigMul(<<1983, 948, 3985, 8014, 1>>, BigPow(Big(2), 970))

\* a / b of two ints raises OverflowError when the quotient is that large
IntDivOverflows(a, b) ==
    /\ Len(a) >= Len(b) + Len(FloatLimit) - 1
    /\ BigCmp(a, BigMul(FloatLimit, b)) >= 0

\* d / c of a float by an int converts c to float, which raises
\* OverflowError when c is that large
IntToFloatOverflows(c) == BigCmp(c, FloatLimit) >= 0

\* whether err_sg's try block (lines 23-25) raises OverflowError
ErrSgOverflows(M_, tau_, n_, rho_) ==
    LET a == ncr(rho_, M_ - tau_)
        b == ncr(M_, M_ - tau_)
        c == BigPow(n_, rho_ - M_ + tau_)
    IN  IntDivOverflows(a, b) \/ IntToFloatOverflows(c)

\* err_sg without its except clause: the quotient is returned as computed
err_sgNoCatch(M_, tau_, n_, rho_) ==
    LET a == ncr(rho_, M_ - tau_)
        b == ncr(M_, M_ - tau_)
        c == BigPow(n_, rho_ - M_ + tau_)
    IN  Rat(a, BigMul(b, c))

\* err_sg dividing b by a
err_sgSwapped(M_, tau_, n_, rho_) ==
    LET a == ncr(rho_, M_ - tau_)
        b == ncr(M_, M_ - tau_)
        c == BigPow(n_, rho_ - M_ + tau_)
    IN  IF IntDivOverflows(b, a) \/ IntToFloatOverflows(c)
        THEN Zero
        ELSE Rat(b, BigMul(a, c))

\* soundness error of KKW
err_sg(M_, tau_, n_, rho_) ==
    LET a == ncr(rho_, M_ - tau_)
        b == ncr(M_, M_ - tau_)
        c == BigPow(n_, rho_ - M_ + tau_)
    IN  IF IntDivOverflows(a, b) \/ IntToFloatOverflows(c)
        THEN Zero
        ELSE Rat(a, BigMul(b, c))

\* 0.5 ** 60
ProdTarget == Rat(Big(1), BigPow(Big(2), 60))

Sentinel == <<10000, 10000>>

None == [kind |-> "None"]

\* ---- the search: for M in Mrange: for tau in taurange: err(M, tau, n) ----

\* a loop that tests the current value, not the next one, against stop
HasNextTestsCurrent(v, r) == v < r.stop

\* whether range r yields a value after v
HasNext(v, r) == v + r.step < r.stop

\* "if ret < base": the running minimum
GreaterReversed(ret_, base_) == RatLt(ret_, base_)

\* if ret > base
Greater(ret_, base_) == RatLt(base_, ret_)

\* "if base <= target"
AcceptsEqual(base_, target_) == ~RatLt(target_, base_)

\* "if base > target"
AcceptsReversed(base_, target_) == RatLt(target_, base_)

\* if base < target
Accepts(base_, target_) == RatLt(base_, target_)

\* "if tp[1] <= min_tuples[1]"
Cond1OrEqual(tp, mt) == tp[2] <= mt[2]

\* if tp[1] < min_tuples[1]
Cond1(tp, mt) == tp[2] < mt[2]

\* "if tp[0] < min_tuples[0]", without the test of tau
Cond2NoTie(tp, mt) == tp[1] < mt[1]

\* if tp[0] < min_tuples[0] and tp[1] == min_tuples[1]
Cond2(tp, mt) == tp[1] < mt[1] /\ tp[2] = mt[2]

\* the call err(M_, tau_, n) begins
EnterErr(M_, tau_) ==
    /\ M' = M_
    /\ tau' = tau_
    /\ rho' = M_ - tau_ + 1
    /\ base' = Zero
    /\ scanned' = 0
    /\ calls' = calls + 1
    /\ pc' = "scan"

\* where each step of the script is the next one
AtFor == pc \in {"start", "for"}

AtScan == pc = "scan" /\ rho <= M

AtReturn == pc = "scan" /\ rho > M

AtFinish == pc = "finish"

AtIf1 == pc = "if1" /\ idx <= Len(lst)

AtIf2 == pc = "if2"

AtPrint == pc = "if1" /\ idx > Len(lst)

\* the loops take their next pair and call err, or end
ForNext ==
    /\ AtFor
    /\ IF RangeEmpty(Mrange) \/ RangeEmpty(taurange)
       THEN /\ pc' = "finish"
            /\ UNCHANGED <<M, tau, rho, base, scanned, calls>>
       ELSE IF pc = "start"
       THEN EnterErr(Mrange.start, taurange.start)
       ELSE IF HasNext(tau, taurange)
       THEN EnterErr(M, tau + taurange.step)
       ELSE IF HasNext(M, Mrange)
       THEN EnterErr(M + Mrange.step, taurange.start)
       ELSE /\ pc' = "finish"
            /\ UNCHANGED <<M, tau, rho, base, scanned, calls>>
    /\ UNCHANGED <<n, target, Mrange, taurange, ret, err_ret, lst, min_tuples,
                   idx, hits, out>>
    /\ UNCHANGED <<ncrVars, parseVars>>

\* one iteration of err's loop over rho (lines 33-36)
ErrScan ==
    /\ AtScan
    /\ LET r == err_sg(M, tau, n, rho)
       IN  /\ ret' = r
           /\ base' = IF Greater(r, base) THEN r ELSE base
    /\ rho' = rho + 1
    /\ scanned' = scanned + 1
    /\ UNCHANGED <<pc, n, target, Mrange, taurange, M, tau, err_ret, lst,
                   min_tuples, idx, hits, out, calls>>
    /\ UNCHANGED <<ncrVars, parseVars>>

\* err's loop is over: the comparison with target (lines 37-39) and return
ErrReturn ==
    /\ AtReturn
    /\ lst' = IF Accepts(base, target) THEN Append(lst, <<M, tau>>) ELSE lst
    /\ err_ret' = None
    /\ pc' = "for"
    /\ UNCHANGED <<n, target, Mrange, taurange, M, tau, rho, base, ret,
                   min_tuples, idx, hits, out, calls, scanned>>
    /\ UNCHANGED <<ncrVars, parseVars>>

\* print("finish computing"); min_tuples = tuple((10000,10000))
PrintFinish ==
    /\ AtFinish
    /\ out' = Append(out, "finish computing")
    /\ min_tuples' = Sentinel
    /\ idx' = 1
    /\ hits' = 0
    /\ pc' = "if1"
    /\ UNCHANGED <<n, target, Mrange, taurange, M, tau, rho, base, ret,
                   err_ret, lst, calls, scanned>>
    /\ UNCHANGED <<ncrVars, parseVars>>

\* if tp[1] < min_tuples[1]: min_tuples = tp
SelFirst ==
    /\ AtIf1
    /\ LET tp == lst[idx]
       IN  IF Cond1(tp, min_tuples)
           THEN min_tuples' = tp /\ hits' = 1
           ELSE min_tuples' = min_tuples /\ hits' = 0
    /\ pc' = "if2"
    /\ UNCHANGED <<n, target, Mrange, taurange, M, tau, rho, base, ret,
                   err_ret, lst, idx, out, calls, scanned>>
    /\ UNCHANGED <<ncrVars, parseVars>>

\* if tp[0] < min_tuples[0] and tp[1] == min_tuples[1]: min_tuples = tp
SelSecond ==
    /\ AtIf2
    /\ LET tp == lst[idx]
       IN  IF Cond2(tp, min_tuples)
           THEN min_tuples' = tp /\ hits' = hits + 1
           ELSE min_tuples' = min_tuples /\ hits' = hits
    /\ idx' = idx + 1
    /\ pc' = "if1"
    /\ UNCHANGED <<n, target, Mrange, taurange, M, tau, rho, base, ret,
                   err_ret, lst, out, calls, scanned>>
    /\ UNCHANGED <<ncrVars, parseVars>>

\* print(min_tuples)
PrintResult ==
    /\ AtPrint
    /\ out' = Append(out, min_tuples)
    /\ pc' = "done"
    /\ UNCHANGED <<n, target, Mrange, taurange, M, tau, rho, base, ret,
                   err_ret, lst, min_tuples, idx, hits, calls, scanned>>
    /\ UNCHANGED <<ncrVars, parseVars>>

NextKkw ==
    \/ ForNext
    \/ ErrScan
    \/ ErrReturn
    \/ PrintFinish
    \/ SelFirst
    \/ SelSecond
    \/ PrintResult

\* the variables of the scripts that do not run
NcrIdle == ncr_in = <<0, 0>> /\ ncr_out = None

ParseIdle ==
    /\ lines = <<>>
    /\ ppc = "idle"
    /\ i = 0
    /\ circuit_name = None
    /\ parsed_data = <<>>
    /\ csv = <<>>

\* kkw_param.py before its first loop, with the given globals and ranges
KkwStart(n_, target_, Mrange_, taurange_) ==
    /\ pc = "start"
    /\ n = n_
    /\ target = target_
    /\ Mrange = Mrange_
    /\ taurange = taurange_
    /\ M = 0
    /\ tau = 0
    /\ rho = 0
    /\ base = Zero
    /\ ret = Zero
    /\ err_ret = None
    /\ lst = <<>>
    /\ min_tuples = Sentinel
    /\ idx = 0
    /\ hits = 0
    /\ out = <<>>
    /\ calls = 0
    /\ scanned = 0

\* ---- the program as shipped ----
InitProd ==
    /\ KkwStart(Big(16), ProdTarget, ProdMrange, Prodtaurange)
    /\ NcrIdle
    /\ ParseIdle

\* one run of the script as shipped
SpecProd == InitProd /\ [][NextKkw]_vars

\* ---- the search over small grids, for a choice of n and target ----
MaxM == 4

MaxTau == 3

DeepTau == 258

HugeN == BigPow(Big(10), 200)

NSet == {Big(1), Big(2), Big(3), Big(16), HugeN}

TargetSet == {ProdTarget, Rat(Big(1), Big(16)), Rat(Big(1), Big(4)),
              Rat(Big(1), Big(2)), One}

InitSearch ==
    /\ \/ \E n_ \in NSet, t \in TargetSet, ms \in 1..(MaxM + 1), mstep \in 1..2 :
             \E tstop \in 1..(Min(ms, MaxTau) + 1) :
                KkwStart(n_, t, Range(ms, MaxM + 1, mstep), Range(1, tstop, 1))
       \/ KkwStart(Big(16), ProdTarget, Range(DeepTau, DeepTau + 1, 1),
                   Range(DeepTau, DeepTau + 1, 1))
    /\ NcrIdle
    /\ ParseIdle

SpecSearch == InitSearch /\ [][NextKkw]_vars

\* ---- the selection loop alone, over any candidate list ----
MaxCand == 3

MaxLen == 3

CandLists ==
    UNION {[1..len -> (1..MaxCand) \X (1..MaxCand)] : len \in 0..MaxLen}

InitSel ==
    /\ \E l \in CandLists :
          /\ lst = l
          /\ pc = "finish"
    /\ n = Big(16)
    /\ target = ProdTarget
    /\ Mrange = Range(1, 1, 1)
    /\ taurange = Range(1, 1, 1)
    /\ M = 0
    /\ tau = 0
    /\ rho = 0
    /\ base = Zero
    /\ ret = Zero
    /\ err_ret = None
    /\ min_tuples = Sentinel
    /\ idx = 0
    /\ hits = 0
    /\ out = <<>>
    /\ calls = 0
    /\ scanned = 0
    /\ NcrIdle
    /\ ParseIdle

NextSel ==
    \/ PrintFinish
    \/ SelFirst
    \/ SelSecond
    \/ PrintResult

SpecSel == InitSel /\ [][NextSel]_vars

\* the variables of kkw_param.py when it does not run
KkwIdle ==
    /\ KkwStart(Big(16), ProdTarget, ProdMrange, Prodtaurange)

\* ---- ncr alone ----
MaxN == 12

IntVal(v) == [kind |-> "int", val |-> v]

CallNcr ==
    /\ ncr_out = None
    /\ ncr_out' = IntVal(ncr(ncr_in[1], ncr_in[2]))
    /\ UNCHANGED <<ncr_in, kkwVars, parseVars>>

InitNcr ==
    /\ \E n_ \in 0..MaxN : \E r_ \in 0..n_ : ncr_in = <<n_, r_>>
    /\ ncr_out = None
    /\ KkwIdle
    /\ ParseIdle

SpecNcr == InitNcr /\ [][CallNcr]_vars

\* ------------------------------------------------------------------------
\* parse_result.py.  A line is modelled by what the script tests of it:
\* "size" starts with 'The size of the serialized object', "elapsed" starts
\* with 'Elapsed', "other" does neither.  The number a line carries is
\* modelled by the line's position in the log, a circuit name by its index
\* in circuit_names.
\* ------------------------------------------------------------------------

\* len(circuit_names)
NumNames == 25

\* position of key in the dict, 0 when absent
DictPos(dict, key) ==
    LET S == {k \in 1..Len(dict) : dict[k].name = key}
    IN  IF S = {} THEN 0 ELSE Max(S)

\* parsed_data[circuit_name] = {'size': size}
DictAssign(dict, key, size) ==
    LET e == [name |-> key, size |-> size, has_time |-> FALSE, time_ms |-> 0]
    IN  IF DictPos(dict, key) = 0
        THEN Append(dict, e)
        ELSE [dict EXCEPT ![DictPos(dict, key)] = e]

\* parsed_data[circuit_name]['time_ms'] = time_ms
DictSetTime(dict, key, time) ==
    [dict EXCEPT ![DictPos(dict, key)] =
        [@ EXCEPT !.has_time = TRUE, !.time_ms = time]]

\* one iteration of "for i, line in enumerate(lines)"
ParseLine ==
    /\ ppc = "loop"
    /\ i < Len(lines)
    /\ LET line == lines[i + 1]
           num  == i + 1
       IN  CASE line = "size" ->
                  IF i >= NumNames
                  THEN /\ ppc' = "IndexError"
                       /\ UNCHANGED <<i, circuit_name, parsed_data>>
                  ELSE /\ circuit_name' = IntVal(i)
                       /\ parsed_data' = DictAssign(parsed_data, i, num)
                       /\ i' = i + 1
                       /\ ppc' = ppc
             [] line = "elapsed" ->
                  IF circuit_name = None
                  THEN /\ ppc' = "NameError"
                       /\ UNCHANGED <<i, circuit_name, parsed_data>>
                  ELSE /\ parsed_data' =
                              DictSetTime(parsed_data, circuit_name.val, num)
                       /\ i' = i + 1
                       /\ UNCHANGED <<ppc, circuit_name>>
             [] OTHER ->
                  /\ i' = i + 1
                  /\ UNCHANGED <<ppc, circuit_name, parsed_data>>
    /\ UNCHANGED <<lines, csv>>
    /\ UNCHANGED <<kkwVars, ncrVars>>

\* the loop is over: open the CSV file and write the header
WriteHeader ==
    /\ ppc = "loop"
    /\ i = Len(lines)
    /\ csv' = <<<<"Circuit Name", "Size (bytes)", "Time (ms)">>>>
    /\ ppc' = "write"
    /\ UNCHANGED <<lines, i, circuit_name, parsed_data>>
    /\ UNCHANGED <<kkwVars, ncrVars>>

\* one iteration of "for circuit_name, data in parsed_data.items()"
WriteRow ==
    /\ ppc = "write"
    /\ Len(csv) <= Len(parsed_data)
    /\ LET data == parsed_data[Len(csv)]
       IN  IF data.has_time
           THEN /\ csv' = Append(csv, <<data.name, data.size, data.time_ms>>)
                /\ circuit_name' = IntVal(data.name)
                /\ ppc' = ppc
           ELSE /\ ppc' = "KeyError"
                /\ circuit_name' = IntVal(data.name)
                /\ csv' = csv
    /\ UNCHANGED <<lines, i, parsed_data>>
    /\ UNCHANGED <<kkwVars, ncrVars>>

\* every row is written: the file is closed, the script ends
WriteEnd ==
    /\ ppc = "write"
    /\ Len(csv) = Len(parsed_data) + 1
    /\ ppc' = "written"
    /\ UNCHANGED <<lines, i, circuit_name, parsed_data, csv>>
    /\ UNCHANGED <<kkwVars, ncrVars>>

NextParse ==
    \/ ParseLine
    \/ WriteHeader
    \/ WriteRow
    \/ WriteEnd

MaxLines == 4

LineKinds == {"size", "elapsed", "other"}

\* the log of p circuits: size, elapsed, size, elapsed, ...
Interleaved(p) == [j \in 1..(2 * p) |-> IF j % 2 = 1 THEN "size" ELSE "elapsed"]

InitParse ==
    /\ lines \in UNION {[1..len -> LineKinds] : len \in 0..MaxLines}
                 \cup {Interleaved(p) : p \in 0..NumNames}
    /\ ppc = "loop"
    /\ i = 0
    /\ circuit_name = None
    /\ parsed_data = <<>>
    /\ csv = <<>>
    /\ KkwIdle
    /\ NcrIdle

SpecParse == InitParse /\ [][NextParse]_vars

\* ------------------------------------------------------------------------
\* Properties
\* ------------------------------------------------------------------------

\* (tau, M) of a is lexicographically at most / below that of b
LexLe(a, b) == a[2] < b[2] \/ (a[2] = b[2] /\ a[1] <= b[1])

LexLt(a, b) == a[2] < b[2] \/ (a[2] = b[2] /\ a[1] < b[1])

\* the first k entries of list l
Entries(l, k) == {l[j] : j \in 1..k}

LexMinOf(S) == CHOOSE e \in S : \A f \in S : LexLe(e, f)

\* the maximum of err_sg over rho in [M-tau+1, M], taken over the set of values
WorstCase(M_, tau_, n_) ==
    LET vals == {err_sg(M_, tau_, n_, r) : r \in (M_ - tau_ + 1)..M_}
    IN  CHOOSE v \in vals : \A w \in vals : ~RatLt(v, w)

\* the (M, tau) pairs the two loops visit
Grid == {<<m, t>> : m \in RangeSet(Mrange), t \in RangeSet(taurange)}

\* n!
Fact(k) == ProdUp(1, k, Big(1))

\* C1: after the full scan of a non-empty candidate list the best-result
\* holder is the entry with the smallest tau, and among those with that tau
\* the one with the smallest M; it is what is printed.
C1_BestIsLexMin ==
    (pc = "done" /\ lst # <<>>) =>
        /\ min_tuples \in Entries(lst, Len(lst))
        /\ \A e \in Entries(lst, Len(lst)) :
              /\ min_tuples[2] <= e[2]
              /\ e[2] = min_tuples[2] => min_tuples[1] <= e[1]
        /\ min_tuples = LexMinOf(Entries(lst, Len(lst)))
        /\ out[Len(out)] = min_tuples

C1_Witness ==
    /\ pc = "done"
    /\ lst = <<<<2, 2>>, <<3, 1>>, <<1, 1>>>>
    /\ min_tuples = <<1, 1>>

\* C10, state part: between iterations the holder is the sentinel (empty
\* prefix) or the lexicographic (tau, M) minimum of the scanned prefix; inside
\* an iteration it is the sentinel or an entry seen so far, it was assigned
\* at most once, and when the first condition has just replaced it the
\* second condition is false.
C10_Holder ==
    /\ pc \in {"if1", "done"} =>
          /\ min_tuples = IF idx = 1 THEN <<10000, 10000>>
                          ELSE LexMinOf(Entries(lst, idx - 1))
          /\ hits <= 1
    /\ pc = "if2" =>
          /\ min_tuples \in {<<10000, 10000>>} \cup Entries(lst, idx)
          /\ hits <= 1
          /\ hits = 1 =>
                ~(lst[idx][1] < min_tuples[1] /\ lst[idx][2] = min_tuples[2])

\* C10, step part: every replacement of the holder strictly decreases
\* (tau, M) lexicographically.
C10_Decreases == min_tuples' # min_tuples => LexLt(min_tuples', min_tuples)

\* C10: monotone update of the best-result holder during the scan.
C10_MonotoneHolder == []C10_Holder /\ [][C10_Decreases]_vars

C10_Witness ==
    /\ pc = "done"
    /\ lst = <<<<3, 2>>, <<2, 1>>, <<1, 1>>>>
    /\ min_tuples = <<1, 1>>
    /\ hits = 1

\* C2, state part: every entry of the candidate list has a worst-case error
\* strictly below target.
C2_Entries ==
    \A k \in 1..Len(lst) : RatLt(WorstCase(lst[k][1], lst[k][2], n), target)

\* C2, step part: the list changes only when a call of err ends, by the
\* append of (M, tau), and exactly when the worst-case error is strictly
\* below target.
C2_Append ==
    IF pc = "scan" /\ rho > M
    THEN lst' = IF RatLt(WorstCase(M, tau, n), target)
                THEN Append(lst, <<M, tau>>)
                ELSE lst
    ELSE lst' = lst

\* C2: the candidate-list invariant and the effect of err on the list.
C2_CandidateList == []C2_Entries /\ [][C2_Append]_vars

\* a call whose worst-case error equals target has just ended without an
\* append, after an earlier call appended
C2_Witness ==
    /\ pc = "for"
    /\ lst # <<>>
    /\ lst[Len(lst)] # <<M, tau>>
    /\ RatEq(WorstCase(M, tau, n), target)

\* C3 as stated: the call err(M, tau, n) returns the maximum of err_sg over
\* the rho range.
C3_ErrReturnsMax ==
    pc = "for" =>
        /\ err_ret.kind = "float"
        /\ RatEq(err_ret.val, WorstCase(M, tau, n))

\* C3 as amended: when err's scan ends its running maximum base is at least
\* every err_sg(M, tau, n, rho) of the range and equal to one of them; err
\* itself returns None.
C3_BaseIsMax ==
    /\ (pc = "scan" /\ rho > M) =>
          /\ \A r \in (M - tau + 1)..M : ~RatLt(base, err_sg(M, tau, n, r))
          /\ \E r \in (M - tau + 1)..M : RatEq(base, err_sg(M, tau, n, r))
    /\ pc = "for" => err_ret = None

C3_Witness ==
    /\ pc = "scan"
    /\ rho > M
    /\ tau >= 2
    /\ RatLt(ret, base)
    /\ RatLt(Zero, ret)

\* C4: ncr(n, r) is the exact binomial coefficient: ncr(n, r) * r! * (n-r)!
\* = n!, and it is 1 for r = 0 and for r = n.
C4_NcrExact ==
    ncr_out # None =>
        /\ BigMul(ncr_out.val, BigMul(Fact(ncr_in[2]), Fact(ncr_in[1] - ncr_in[2])))
              = Fact(ncr_in[1])
        /\ (ncr_in[2] = 0 \/ ncr_in[2] = ncr_in[1]) => ncr_out.val = Big(1)

C4_Witness == ncr_in = <<10, 3>> /\ ncr_out = IntVal(Big(120))

\* C5, the counts: err is called once per pair of the grid, in order, 336
\* times in all; a call scans at most 48 rho values; "finish computing" is
\* printed after the last call; the pair printed last is not the sentinel.
C5_Run ==
    /\ calls <= 336
    /\ scanned <= 48
    /\ pc = "scan" =>
          /\ M \in 64..504
          /\ tau \in 8..48
          /\ calls = ((M - 64) \div 8) * 6 + ((tau - 8) \div 8) + 1
    /\ out # <<>> =>
          /\ out[1] = "finish computing"
          /\ calls = 336
          /\ pc \in {"if1", "if2", "done"}
    /\ pc = "done" =>
          /\ calls = 336
          /\ Len(out) = 2
          /\ out[2] = min_tuples
          /\ out[2] # <<10000, 10000>>
          /\ out[2][2] < 10000

\* a step of kkw_param.py is due
KkwCanStep == AtFor \/ AtScan \/ AtReturn \/ AtFinish \/ AtIf1 \/ AtIf2 \/ AtPrint

\* C5: with the shipped parameters the program runs on until it has printed
\* its result (before that a step is always due, and the counts above bound
\* the run), after 336 calls of err, and prints a pair that is not the
\* sentinel.
C5_ProductionRun == C5_Run /\ (pc = "done" \/ KkwCanStep)

C5_Witness ==
    /\ pc = "done"
    /\ calls = 336
    /\ Len(lst) > 0
    /\ out[2] = <<144, 16>>

\* C6: if no pair of the grid has a worst-case error below target, the list
\* is empty, the selector assigns nothing and the sentinel is printed.
C6_EmptyListPrintsSentinel ==
    (pc = "done" /\ \A p \in Grid : ~RatLt(WorstCase(p[1], p[2], n), target)) =>
        /\ lst = <<>>
        /\ hits = 0
        /\ min_tuples = <<10000, 10000>>
        /\ out = <<"finish computing", <<10000, 10000>>>>

C6_Witness ==
    /\ pc = "done"
    /\ calls >= 2
    /\ lst = <<>>
    /\ Len(out) = 2
    /\ out[2] = <<10000, 10000>>

\* C7: when the try block does not overflow, the value err_sg returned is
\* (C(rho, M-tau) / C(M, M-tau)) / n^(rho-M+tau) and lies in [0, 1], that is
\* 0 <= C(rho, M-tau) <= C(M, M-tau) * n^(rho-M+tau).
C7_ErrSgInUnitInterval ==
    (pc = "scan" /\ scanned >= 1 /\ ~ErrSgOverflows(M, tau, n, rho - 1)) =>
        LET a == ncr(rho - 1, M - tau)
            b == ncr(M, M - tau)
            c == BigPow(n, rho - 1 - M + tau)
        IN  /\ RatEq(ret, Rat(a, BigMul(b, c)))
            /\ ~RatLt(ret, Zero)
            /\ ~RatLt(One, ret)
            /\ BigCmp(a, BigMul(b, c)) <= 0

C7_Witness ==
    /\ pc = "scan"
    /\ scanned >= 1
    /\ ~ErrSgOverflows(M, tau, n, rho - 1)
    /\ ret.num # Big(1)
    /\ RatLt(Zero, ret)
    /\ RatLt(ret, One)

\* the step of err's loop at a rho whose err_sg overflows
C8_Overflow ==
    (pc = "scan" /\ rho <= M /\ ErrSgOverflows(M, tau, n, rho)) =>
        /\ ret' = Zero
        /\ base' = base
        /\ lst' = lst
        /\ pc' = "scan"
        /\ rho' = rho + 1
        /\ M' = M
        /\ tau' = tau

\* C8: an iteration of err's loop whose err_sg overflows gets 0.0 and no
\* exception, leaves the running maximum and the candidate list as they are,
\* and goes on to the next rho of the same call.
C8_OverflowGivesZero == [][C8_Overflow]_vars

C8_Witness ==
    /\ pc = "scan"
    /\ scanned >= 2
    /\ ErrSgOverflows(M, tau, n, rho - 1)
    /\ ret = Zero
    /\ RatLt(Zero, base)

\* the lines that match one of the two patterns, in order
IsMatching(line) == line # "other"

Matching(l) == SelectSeq(l, IsMatching)

\* size, elapsed, size, elapsed, ...
StrictlyInterleaved(l) ==
    /\ Len(Matching(l)) % 2 = 0
    /\ \A j \in 1..Len(Matching(l)) :
          Matching(l)[j] = IF j % 2 = 1 THEN "size" ELSE "elapsed"

ParseFailed == ppc \in {"IndexError", "NameError", "KeyError"}

\* C9, the success half: on a log whose matching lines are strictly
\* interleaved, one size line and one elapsed line per circuit name, the
\* parser does not fail and writes one row per circuit name.
C9_InterleavedLogWritten ==
    (/\ StrictlyInterleaved(lines)
     /\ Len(Matching(lines)) = 2 * NumNames
     /\ ppc \notin {"loop", "write"})
        => /\ ppc = "written"
           /\ Len(csv) = NumNames + 1

\* C9, the failure half: the parser fails on a log with fewer matching lines
\* than circuit names, and on one whose matching lines are not strictly
\* interleaved.
C9_ShortOrMixedLogFails ==
    (/\ ppc \notin {"loop", "write"}
     /\ \/ Len(Matching(lines)) < NumNames
        \/ ~StrictlyInterleaved(lines))
        => ParseFailed

====
